---- MODULE Spec2Model ----
(***************************************************************************)
(* CommanderGame (commanders_and_strongholds.py): the configuration        *)
(* setters, fit_army_orders, fit_game_matrix, show_submatrixes and         *)
(* _score_battles, as a state machine over one game object.                *)
(*                                                                         *)
(* numpy / pandas values are modelled by what the program observes of      *)
(* them: an element of an orders array is either a 1-D integer array (a    *)
(* vector) or, when sum() ran over an empty combination, the integer 0 (a  *)
(* scalar, which has no len() and is not iterable); a DataFrame is its     *)
(* index labels, its column labels and its rows of values.                 *)
(***************************************************************************)
EXTENDS Integers, Sequences, FiniteSets, TLC

VARIABLES
    constructed,     \* __init__ has returned a game object
    init_args,       \* the arguments __init__ was called with
    armies_sizes,    \* self._armies_sizes
    n_strongholds,   \* self._n_strongholds
    has_orders,      \* hasattr(self, 'armies_orders_')
    armies_orders_,  \* self.armies_orders_
    has_matrix,      \* hasattr(self, 'game_matrix_')
    game_matrix_,    \* self.game_matrix_
    lastOp,          \* the method called last
    err,             \* the exception that call raised, "none" when it returned
    defaulted,       \* show_submatrixes was called with orders_lists=None
    orders_lists,    \* orders_lists as show_submatrixes used it
    emitted,         \* the sub-matrices show_submatrixes printed, in order
    ran_orders,      \* history: fit_army_orders has run
    built_matrix,    \* history: fit_game_matrix has succeeded
    first_order,     \* _score_battles argument
    second_order,    \* _score_battles argument
    final_score      \* <<_score_battles(first, second), _score_battles(second, first)>>

vars == <<constructed, init_args, armies_sizes, n_strongholds, has_orders,
          armies_orders_, has_matrix, game_matrix_, lastOp, err, defaulted,
          orders_lists, emitted, ran_orders, built_matrix, first_order,
          second_order, final_score>>

\* Largest army size the model assigns.
MaxArmy == 2

\* Largest number of strongholds the model assigns.
MaxN == 2

-----------------------------------------------------------------------------
(* Python values *)

\* An argument value: an int, or a value that is not an instance of int.
IntVal(x) == [kind |-> "int", v |-> x]

FloatVal(x) == [kind |-> "float", v |-> x]

\* The values passed as an army size: a negative int, the smallest sizes, the
\* largest size, and a float.
ArgValues == {IntVal(x) : x \in {-1, 0, 1, MaxArmy}} \cup {FloatVal(1)}

\* The values passed as n_strongholds.
NArgValues == {IntVal(x) : x \in {-1, 0, 1, MaxN}} \cup {FloatVal(1)}

\* armies_sizes arguments: a list of two values, or a value that cannot be
\* iterated.
SizesArgs ==
    {[iterable |-> TRUE, items |-> <<a, b>>] : a \in ArgValues, b \in ArgValues}
        \cup {[iterable |-> FALSE, items |-> <<>>]}

\* A 1-D integer array / a list of ints.
Vec(s) == [ndim |-> 1, v |-> s]

\* A bare integer (what sum(()) returns).
Scalar(x) == [ndim |-> 0, v |-> <<x>>]

RECURSIVE SeqSum(_)
SeqSum(s) == IF s = <<>> THEN 0 ELSE Head(s) + SeqSum(Tail(s))

RECURSIVE Flatten(_)
Flatten(ss) == IF ss = <<>> THEN <<>> ELSE Head(ss) \o Flatten(Tail(ss))

Max(a, b) == IF a >= b THEN a ELSE b

-----------------------------------------------------------------------------
(* Setters *)

\* isinstance(value, int) and value >= 0
IsNatural(value) == value.kind = "int" /\ value.v >= 0

\* The exception the armies_sizes setter raises for obj.
SizesError(obj) ==
    IF ~obj.iterable THEN "TypeError"
    ELSE IF \E i \in 1..Len(obj.items) : ~IsNatural(obj.items[i])
         THEN "AssertionError"
         ELSE "none"

\* The exception the n_strongholds setter raises for value.
NError(value) == IF IsNatural(value) THEN "none" ELSE "AssertionError"

SizesOf(obj) == [i \in 1..Len(obj.items) |-> obj.items[i].v]

-----------------------------------------------------------------------------
(* fit_army_orders *)

\* Row i of np.identity(n).
IdentityRow(n, i) == [j \in 1..n |-> IF j = i THEN 1 ELSE 0]

\* itertools.combinations_with_replacement over pool indices lo..n, r picks:
\* the non-decreasing index tuples in lexicographic order.
RECURSIVE CombosFrom(_, _, _)
CombosFrom(lo, n, r) ==
    IF r = 0 THEN << <<>> >>
    ELSE Flatten([k \in 1..(n - lo + 1) |->
            LET i == lo + k - 1
                rest == CombosFrom(i, n, r - 1)
            IN  [t \in 1..Len(rest) |-> <<i>> \o rest[t]]])

\* Mutant: itertools.product(pool, repeat=r), every index tuple.
RECURSIVE product_repeat(_, _)
product_repeat(n, r) ==
    IF r = 0 THEN << <<>> >>
    ELSE Flatten([i \in 1..n |->
            LET rest == product_repeat(n, r - 1)
            IN  [t \in 1..Len(rest) |-> <<i>> \o rest[t]]])

combinations_with_replacement(n, r) == CombosFrom(1, n, r)

\* sum(army_order): 0 + row + row + ...; the int 0 for an empty combination.
RECURSIVE SumRows(_, _)
SumRows(combo, n) ==
    IF combo = <<>> THEN Scalar(0)
    ELSE LET init == SumRows(SubSeq(combo, 1, Len(combo) - 1), n)
             row  == IdentityRow(n, combo[Len(combo)])
         IN  Vec([j \in 1..n |->
                    (IF init.ndim = 0 THEN init.v[1] ELSE init.v[j]) + row[j]])

\* The orders array of one army.
ArmyOrders(army_size, n) ==
    LET combinations == combinations_with_replacement(n, army_size)
    IN  [c \in 1..Len(combinations) |-> SumRows(combinations[c], n)]

\* The value fit_army_orders assigns to armies_orders_.
FitOrders(sizes, n) == [i \in 1..Len(sizes) |-> ArmyOrders(sizes[i], n)]

-----------------------------------------------------------------------------
(* _score_battles *)

\* The loop over zip(first_order, second_order) from pair i on.
RECURSIVE ScoreFrom(_, _, _)
ScoreFrom(first, second, i) ==
    IF i > Len(first) \/ i > Len(second) THEN 0
    ELSE (IF first[i] > second[i] THEN second[i] + 1
          ELSE IF first[i] = second[i] THEN 0
          ELSE 0 - (first[i] + 1))
         + ScoreFrom(first, second, i + 1)

\* Mutant: the losing branch subtracts the winner's units plus one.
RegimentScores_swapped(first, second) ==
    LET RECURSIVE F(_)
        F(i) == IF i > Len(first) \/ i > Len(second) THEN 0
                ELSE (IF first[i] > second[i] THEN second[i] + 1
                      ELSE IF first[i] = second[i] THEN 0
                      ELSE 0 - (second[i] + 1)) + F(i + 1)
    IN  F(1)

\* Mutant: a won stronghold scores every unit sent to it plus one.
RegimentScores_units(first, second) ==
    LET RECURSIVE F(_)
        F(i) == IF i > Len(first) \/ i > Len(second) THEN 0
                ELSE (IF first[i] > second[i] THEN first[i] + second[i] + 1
                      ELSE IF first[i] = second[i] THEN 0
                      ELSE 0 - (first[i] + second[i] + 1)) + F(i + 1)
    IN  F(1)

\* final_score of the loop over zip(first_order, second_order).
RegimentScores(first, second) == ScoreFrom(first, second, 1)

\* The exception _score_battles raises: len() of a bare integer is a TypeError,
\* a length other than n_strongholds fails the assertion.
ScoreError(first, second, n) ==
    IF first.ndim = 0 \/ second.ndim = 0 THEN "TypeError"
    ELSE IF ~(Len(first.v) = Len(second.v) /\ Len(second.v) = n)
         THEN "AssertionError"
         ELSE "none"

_score_battles(first, second) == RegimentScores(first.v, second.v)

-----------------------------------------------------------------------------
(* str() of an order, the DataFrame labels *)

Digit(d) == <<"0", "1", "2", "3", "4", "5", "6", "7", "8", "9">>[d + 1]

\* str() of a non-negative int: its decimal digits.
RECURSIVE IntStr(_)
IntStr(x) == IF x < 10 THEN <<Digit(x)>> ELSE IntStr(x \div 10) \o <<Digit(x % 10)>>

RECURSIVE Spaces(_)
Spaces(k) == IF k <= 0 THEN <<>> ELSE <<" ">> \o Spaces(k - 1)

RECURSIVE MaxWidth(_)
MaxWidth(s) == IF s = <<>> THEN 0 ELSE Max(Len(IntStr(Head(s))), MaxWidth(Tail(s)))

\* numpy's text of a 1-D integer array: the elements right-justified to the
\* widest one, separated by one space, in brackets.
RECURSIVE ArrayBody(_, _)
ArrayBody(s, width) ==
    IF s = <<>> THEN <<>>
    ELSE Spaces(width - Len(IntStr(Head(s)))) \o IntStr(Head(s))
         \o (IF Tail(s) = <<>> THEN <<>> ELSE <<" ">> \o ArrayBody(Tail(s), width))

\* str(order_list)
Str(order) ==
    IF order.ndim = 0 THEN IntStr(order.v[1])
    ELSE <<"[">> \o ArrayBody(order.v, MaxWidth(order.v)) \o <<"]">>

Labels(army_orders) == [i \in 1..Len(army_orders) |-> Str(army_orders[i])]

-----------------------------------------------------------------------------
(* fit_game_matrix *)

\* A DataFrame: index labels, column labels, rows of values.
Frame(index, columns, values) ==
    [index |-> index, columns |-> columns, values |-> values]

EmptyFrame == Frame(<<>>, <<>>, <<>>)

\* The first exception of the row-major scoring loop, "none" when every
\* _score_battles call returns.
RECURSIVE FirstError(_)
FirstError(errors) ==
    IF errors = <<>> THEN "none"
    ELSE IF Head(errors) # "none" THEN Head(errors) ELSE FirstError(Tail(errors))

MatrixError(orders, n) ==
    FirstError(Flatten([r \in 1..Len(orders[1]) |->
        [c \in 1..Len(orders[2]) |-> ScoreError(orders[1][r], orders[2][c], n)]]))

\* Mutant: the orders are passed to _score_battles the wrong way round.
ScoreRows_swapped(orders) ==
    [r \in 1..Len(orders[1]) |->
        [c \in 1..Len(orders[2]) |-> _score_battles(orders[2][c], orders[1][r])]]

\* matrix: one list of _score_battles results per row order.
ScoreRows(orders) ==
    [r \in 1..Len(orders[1]) |->
        [c \in 1..Len(orders[2]) |-> _score_battles(orders[1][r], orders[2][c])]]

\* pd.DataFrame(np.array(matrix), index=..., columns=...).  np.array([]) of no
\* rows is 1-D and of no size; pandas takes it as zero rows of one column.
PassedColumns(orders) == IF Len(orders[1]) = 0 THEN 1 ELSE Len(orders[2])

\* The exception the DataFrame constructor raises: the values passed do not
\* have one column per column label.
FrameError(orders) ==
    IF PassedColumns(orders) # Len(orders[2]) THEN "ValueError" ELSE "none"

\* The exception fit_game_matrix raises once armies_orders_ is found.
FitMatrixError(orders, n) ==
    IF MatrixError(orders, n) # "none" THEN MatrixError(orders, n)
    ELSE FrameError(orders)

\* The labelled game matrix.
GameMatrix(orders) == Frame(Labels(orders[1]), Labels(orders[2]), ScoreRows(orders))

-----------------------------------------------------------------------------
(* show_submatrixes *)

Range(s) == {s[i] : i \in 1..Len(s)}

\* collections.Counter of the elements of a sequence.
Counter(s) == [x \in Range(s) |-> Cardinality({i \in 1..Len(s) : s[i] = x})]

\* Counter(order) raises TypeError for a bare integer (not iterable).
CounterError(army_orders) ==
    IF \E i \in 1..Len(army_orders) : army_orders[i].ndim = 0
    THEN "TypeError" ELSE "none"

\* The orders_lists=None loop for one army: the orders kept are the first of
\* each Counter.
RECURSIVE UniqueOrders(_)
UniqueOrders(army_orders) ==
    IF army_orders = <<>> THEN <<>>
    ELSE LET unique_orders == UniqueOrders(SubSeq(army_orders, 1, Len(army_orders) - 1))
             army_order == army_orders[Len(army_orders)]
         IN  IF \E k \in 1..Len(unique_orders) :
                    Counter(unique_orders[k].v) = Counter(army_order.v)
             THEN unique_orders
             ELSE Append(unique_orders, army_order)

DefaultOrdersLists(orders) == [i \in 1..Len(orders) |-> UniqueOrders(orders[i])]

\* pattern_lists[idx]: the Counter of every order of one army.
PatternList(army_orders) == [i \in 1..Len(army_orders) |-> Counter(army_orders[i].v)]

\* pattern_list == Counter(order): the boolean mask over one army's orders.
Cond(pattern_list, order) ==
    LET pattern == Counter(order.v)
    IN  [i \in 1..Len(pattern_list) |-> pattern_list[i] = pattern]

\* The positions a boolean mask selects, in order.
RECURSIVE Selected(_, _)
Selected(cond, i) ==
    IF i > Len(cond) THEN <<>>
    ELSE (IF cond[i] THEN <<i>> ELSE <<>>) \o Selected(cond, i + 1)

\* itertools.product of the two lists, row-major.
Product(lists) ==
    Flatten([r \in 1..Len(lists[1]) |->
        [c \in 1..Len(lists[2]) |-> <<lists[1][r], lists[2][c]>>]])

\* A value of a reindexed frame: a number, or NaN where a label is missing.
Num(x) == [nan |-> FALSE, v |-> x]

NaN == [nan |-> TRUE, v |-> 0]

\* The position of a label in a sequence of labels, 0 when absent.
Position(labels, label) ==
    IF \E i \in 1..Len(labels) : labels[i] = label
    THEN CHOOSE i \in 1..Len(labels) :
            labels[i] = label /\ \A j \in 1..(i - 1) : labels[j] # label
    ELSE 0

\* game_matrix_.iloc[row_cond, col_cond]
Iloc(frame, row_cond, col_cond) ==
    LET rows == Selected(row_cond, 1)
        cols == Selected(col_cond, 1)
    IN  Frame([i \in 1..Len(rows) |-> frame.index[rows[i]]],
              [j \in 1..Len(cols) |-> frame.columns[cols[j]]],
              [i \in 1..Len(rows) |->
                  [j \in 1..Len(cols) |-> frame.values[rows[i]][cols[j]]]])

\* pd.DataFrame(frame, index=..., columns=...): pandas reindexes the frame by
\* the labels given.
Reindex(frame, index, columns) ==
    Frame(index, columns,
          [i \in 1..Len(index) |->
              [j \in 1..Len(columns) |->
                  LET r == Position(frame.index, index[i])
                      c == Position(frame.columns, columns[j])
                  IN  IF r = 0 \/ c = 0 THEN NaN ELSE Num(frame.values[r][c])]])

\* The exception iloc raises for a boolean mask of the wrong length.
IlocError(frame, orders) ==
    IF Len(orders[1]) # Len(frame.index) \/ Len(orders[2]) # Len(frame.columns)
    THEN "IndexError" ELSE "none"

\* What one pass of the product loop prints.
SubMatrix(frame, orders, pattern_lists, row_order, col_order) ==
    LET row_cond == Cond(pattern_lists[1], row_order)
        col_cond == Cond(pattern_lists[2], col_order)
        smaller_game == Iloc(frame, row_cond, col_cond)
        rows == Selected(row_cond, 1)
        cols == Selected(col_cond, 1)
    IN  [row_order |-> row_order, col_order |-> col_order,
         game_matrix |->
            Reindex(smaller_game,
                    [i \in 1..Len(rows) |-> Str(orders[1][rows[i]])],
                    [j \in 1..Len(cols) |-> Str(orders[2][cols[j]])])]

\* The exception show_submatrixes raises once game_matrix_ is found.
ShowError(frame, orders, lists) ==
    IF CounterError(orders[1] \o orders[2]) # "none" THEN "TypeError"
    ELSE IF Product(lists) # <<>> /\ IlocError(frame, orders) # "none" THEN "IndexError"
    ELSE "none"

\* Everything the product loop prints.
SubMatrixes(frame, orders, lists) ==
    LET pairs == Product(lists)
        pattern_lists == <<PatternList(orders[1]), PatternList(orders[2])>>
    IN  [p \in 1..Len(pairs) |->
            SubMatrix(frame, orders, pattern_lists, pairs[p][1], pairs[p][2])]

-----------------------------------------------------------------------------
(* The game object *)

NoOrders == << <<>>, <<>> >>

\* The readiness checks: getattr(self, name) raising AttributeError.
OrdersMissing == ~has_orders

\* Mutant: show_submatrixes looks for armies_orders_ instead.
MatrixMissing_orders == ~has_orders

MatrixMissing == ~has_matrix

\* The exception __init__ raises: the armies_sizes setter runs first.
InitError(obj, value) ==
    IF SizesError(obj) # "none" THEN SizesError(obj) ELSE NError(value)

\* What a call that prints nothing and scores nothing leaves of the outputs.
NoOutput ==
    /\ defaulted' = FALSE
    /\ orders_lists' = <<>>
    /\ emitted' = <<>>
    /\ UNCHANGED <<first_order, second_order, final_score>>

Unfitted ==
    /\ has_orders = FALSE
    /\ armies_orders_ = NoOrders
    /\ has_matrix = FALSE
    /\ game_matrix_ = EmptyFrame
    /\ ran_orders = FALSE
    /\ built_matrix = FALSE
    /\ defaulted = FALSE
    /\ orders_lists = <<>>
    /\ emitted = <<>>
    /\ first_order = Vec(<<>>)
    /\ second_order = Vec(<<>>)
    /\ final_score = <<>>

\* A game as CommanderGame(obj, value) returns it.
Init ==
    /\ \E obj \in SizesArgs, value \in NArgValues :
        /\ InitError(obj, value) = "none"
        /\ armies_sizes = SizesOf(obj)
        /\ n_strongholds = value.v
    /\ constructed = TRUE
    /\ init_args = <<>>
    /\ lastOp = "__init__"
    /\ err = "none"
    /\ Unfitted

\* game.armies_sizes = obj
SetArmiesSizes(obj) ==
    /\ constructed
    /\ lastOp' = "armies_sizes"
    /\ err' = SizesError(obj)
    /\ armies_sizes' = IF SizesError(obj) = "none" THEN SizesOf(obj) ELSE armies_sizes
    /\ NoOutput
    /\ UNCHANGED <<constructed, init_args, n_strongholds, has_orders, armies_orders_,
                   has_matrix, game_matrix_, ran_orders, built_matrix>>

\* game.n_strongholds = value
SetNStrongholds(value) ==
    /\ constructed
    /\ lastOp' = "n_strongholds"
    /\ err' = NError(value)
    /\ n_strongholds' = IF NError(value) = "none" THEN value.v ELSE n_strongholds
    /\ NoOutput
    /\ UNCHANGED <<constructed, init_args, armies_sizes, has_orders, armies_orders_,
                   has_matrix, game_matrix_, ran_orders, built_matrix>>

\* game.fit_army_orders()
FitArmyOrders ==
    /\ constructed
    /\ lastOp' = "fit_army_orders"
    /\ err' = "none"
    /\ armies_orders_' = FitOrders(armies_sizes, n_strongholds)
    /\ has_orders' = TRUE
    /\ ran_orders' = TRUE
    /\ NoOutput
    /\ UNCHANGED <<constructed, init_args, armies_sizes, n_strongholds, has_matrix,
                   game_matrix_, built_matrix>>

\* game.fit_game_matrix()
FitGameMatrix ==
    /\ constructed
    /\ lastOp' = "fit_game_matrix"
    /\ err' = IF OrdersMissing THEN "RuntimeError"
              ELSE FitMatrixError(armies_orders_, n_strongholds)
    /\ IF err' = "none"
       THEN /\ game_matrix_' = GameMatrix(armies_orders_)
            /\ has_matrix' = TRUE
            /\ built_matrix' = TRUE
       ELSE UNCHANGED <<game_matrix_, has_matrix, built_matrix>>
    /\ NoOutput
    /\ UNCHANGED <<constructed, init_args, armies_sizes, n_strongholds, has_orders,
                   armies_orders_, ran_orders>>

\* orders_lists a caller passes: a single order for the first player and a
\* list of orders for the second (the shape of game_example.py), the orders
\* taken from the allocations of the current armies_orders_.
ListOf(army_orders) ==
    IF CounterError(army_orders) = "none" THEN army_orders ELSE <<>>

PassedOrdersLists ==
    LET rows == ListOf(armies_orders_[1])
        cols == ListOf(armies_orders_[2])
    IN  {<< <<rows[i]>>, cols >> : i \in 1..Len(rows)}

\* game.show_submatrixes(lists), lists = None when default
ShowSubmatrixes(default, lists) ==
    /\ constructed
    /\ lastOp' = "show_submatrixes"
    /\ defaulted' = default
    /\ LET used == IF default THEN DefaultOrdersLists(armies_orders_) ELSE lists
       IN  /\ err' = IF MatrixMissing THEN "RuntimeError"
                     ELSE ShowError(game_matrix_, armies_orders_, used)
           /\ orders_lists' = IF err' \in {"RuntimeError", "TypeError"} THEN <<>> ELSE used
           /\ emitted' = IF err' = "none"
                         THEN SubMatrixes(game_matrix_, armies_orders_, used)
                         ELSE <<>>
    /\ UNCHANGED <<constructed, init_args, armies_sizes, n_strongholds, has_orders,
                   armies_orders_, has_matrix, game_matrix_, ran_orders, built_matrix,
                   first_order, second_order, final_score>>

Next ==
    \/ \E obj \in SizesArgs : SetArmiesSizes(obj)
    \/ \E value \in NArgValues : SetNStrongholds(value)
    \/ FitArmyOrders
    \/ FitGameMatrix
    \/ ShowSubmatrixes(TRUE, <<>>)
    \/ \E lists \in PassedOrdersLists : ShowSubmatrixes(FALSE, lists)

Spec == Init /\ [][Next]_vars

-----------------------------------------------------------------------------
(* Construction: CommanderGame(obj, value) *)

InitConstruct ==
    /\ constructed = FALSE
    /\ init_args \in SizesArgs \X NArgValues
    /\ armies_sizes = <<>>
    /\ n_strongholds = 0
    /\ lastOp = "none"
    /\ err = "none"
    /\ Unfitted

\* __init__: the armies_sizes setter, then the n_strongholds setter.
Construct ==
    /\ ~constructed
    /\ lastOp = "none"
    /\ lastOp' = "__init__"
    /\ LET obj == init_args[1]
           value == init_args[2]
       IN  /\ err' = InitError(obj, value)
           /\ armies_sizes' = IF SizesError(obj) = "none" THEN SizesOf(obj)
                              ELSE armies_sizes
           /\ n_strongholds' = IF InitError(obj, value) = "none" THEN value.v
                               ELSE n_strongholds
           /\ constructed' = (InitError(obj, value) = "none")
    /\ NoOutput
    /\ UNCHANGED <<init_args, has_orders, armies_orders_, has_matrix, game_matrix_,
                   ran_orders, built_matrix>>

NextConstruct == Construct

SpecConstruct == InitConstruct /\ [][NextConstruct]_vars

-----------------------------------------------------------------------------
(* Scoring: game._score_battles(first_order, second_order) and the reverse *)

\* The lists of at most n units each, of length at most len.
RECURSIVE Orders(_, _)
Orders(len, n) ==
    IF len = 0 THEN {<<>>}
    ELSE Orders(len - 1, n)
            \cup {Append(s, x) : s \in {t \in Orders(len - 1, n) : Len(t) = len - 1},
                                 x \in 0..n}

InitScore ==
    /\ constructed = TRUE
    /\ init_args = <<>>
    /\ armies_sizes = <<MaxArmy, MaxArmy>>
    /\ n_strongholds \in 0..MaxN
    /\ lastOp = "__init__"
    /\ err = "none"
    /\ has_orders = FALSE
    /\ armies_orders_ = NoOrders
    /\ has_matrix = FALSE
    /\ game_matrix_ = EmptyFrame
    /\ ran_orders = FALSE
    /\ built_matrix = FALSE
    /\ defaulted = FALSE
    /\ orders_lists = <<>>
    /\ emitted = <<>>
    /\ first_order \in {Vec(s) : s \in Orders(MaxN, MaxArmy)}
    /\ second_order \in {Vec(s) : s \in Orders(MaxN, MaxArmy)}
    /\ final_score = <<>>

\* The two calls _score_battles(first, second) and _score_battles(second, first).
ScoreBattles ==
    /\ lastOp = "__init__"
    /\ lastOp' = "_score_battles"
    /\ err' = ScoreError(first_order, second_order, n_strongholds)
    /\ final_score' = IF err' = "none"
                      THEN <<_score_battles(first_order, second_order),
                             _score_battles(second_order, first_order)>>
                      ELSE <<>>
    /\ UNCHANGED <<constructed, init_args, armies_sizes, n_strongholds, has_orders,
                   armies_orders_, has_matrix, game_matrix_, defaulted, orders_lists,
                   emitted, ran_orders, built_matrix, first_order, second_order>>

NextScore == ScoreBattles

SpecScore == InitScore /\ [][NextScore]_vars

-----------------------------------------------------------------------------
(* Properties *)

\* The number of times x occurs in s.
Count(s, x) == Cardinality({i \in 1..Len(s) : s[i] = x})

\* Two allocations hold the same multiset of unit-counts.
SameMultiset(a, b) ==
    /\ Len(a) = Len(b)
    /\ \A x \in Range(a) \cup Range(b) : Count(a, x) = Count(b, x)

\* C(n, k) by Pascal's rule.
RECURSIVE Binomial(_, _)
Binomial(n, k) ==
    IF k < 0 \/ k > n THEN 0
    ELSE IF k = 0 \/ k = n THEN 1
    ELSE Binomial(n - 1, k - 1) + Binomial(n - 1, k)

Abs(x) == IF x < 0 THEN 0 - x ELSE x

\* armies_orders_ is what fit_army_orders computes for the configuration held
\* now, and game_matrix_ carries the labels of these orders.
BuiltForConfiguration ==
    /\ has_orders
    /\ has_matrix
    /\ armies_orders_ = FitOrders(armies_sizes, n_strongholds)
    /\ game_matrix_.index = Labels(armies_orders_[1])
    /\ game_matrix_.columns = Labels(armies_orders_[2])

\* C1: whenever both _score_battles(a, b) and _score_battles(b, a) return, for
\* allocations a, b of length n_strongholds, the first result is the negation
\* of the second, and it is 0 when a = b.
C1_ScoreAntisymmetric ==
    (lastOp = "_score_battles" /\ err = "none") =>
        /\ final_score[1] = 0 - final_score[2]
        /\ (first_order = second_order => final_score[1] = 0)

\* C1 witness: a scored pair of two-stronghold allocations with a positive
\* result for the first player.
C1_Witness ==
    /\ lastOp = "_score_battles"
    /\ err = "none"
    /\ Len(first_order.v) = 2
    /\ final_score[1] > 0
    /\ final_score[2] < 0

\* C2: right after fit_army_orders on a game with n_strongholds >= 1, each
\* player's allocation set holds no allocation twice and has exactly
\* C(army_size + n_strongholds - 1, n_strongholds - 1) elements.
C2_EnumerationSize ==
    (lastOp = "fit_army_orders" /\ n_strongholds >= 1) =>
        \A p \in 1..2 :
            LET army_orders == armies_orders_[p]
            IN  /\ \A i, j \in 1..Len(army_orders) :
                        army_orders[i] = army_orders[j] => i = j
                /\ Len(army_orders) =
                        Binomial(armies_sizes[p] + n_strongholds - 1, n_strongholds - 1)

\* C2 witness: fit_army_orders has enumerated MaxArmy units over two
\* strongholds, more than one allocation.
C2_Witness ==
    /\ lastOp = "fit_army_orders"
    /\ n_strongholds = 2
    /\ armies_sizes[1] = MaxArmy
    /\ Len(armies_orders_[1]) = MaxArmy + 1

\* C3: right after fit_army_orders on a game with n_strongholds >= 1, every
\* allocation is a vector of n_strongholds entries, all >= 0, summing to the
\* player's army size; an army of size 0 has exactly one allocation, the
\* all-zero vector of length n_strongholds.
C3_AllocationsWellFormed ==
    (lastOp = "fit_army_orders" /\ n_strongholds >= 1) =>
        \A p \in 1..2 :
            LET army_orders == armies_orders_[p]
            IN  /\ \A i \in 1..Len(army_orders) :
                        /\ army_orders[i].ndim = 1
                        /\ Len(army_orders[i].v) = n_strongholds
                        /\ \A k \in 1..Len(army_orders[i].v) : army_orders[i].v[k] >= 0
                        /\ SeqSum(army_orders[i].v) = armies_sizes[p]
                /\ armies_sizes[p] = 0 =>
                        army_orders = <<Vec([k \in 1..n_strongholds |-> 0])>>

\* C4: right after a fit_game_matrix that returned, the game matrix has one
\* row per order of armies_orders_[0] and one column per order of
\* armies_orders_[1], and cell (r, c) is _score_battles of row order r and
\* column order c, a call that returns.
C4_MatrixCells ==
    (lastOp = "fit_game_matrix" /\ err = "none") =>
        /\ has_matrix
        /\ Len(game_matrix_.index) = Len(armies_orders_[1])
        /\ Len(game_matrix_.columns) = Len(armies_orders_[2])
        /\ Len(game_matrix_.values) = Len(armies_orders_[1])
        /\ \A r \in 1..Len(armies_orders_[1]) :
            /\ Len(game_matrix_.values[r]) = Len(armies_orders_[2])
            /\ \A c \in 1..Len(armies_orders_[2]) :
                /\ ScoreError(armies_orders_[1][r], armies_orders_[2][c],
                              n_strongholds) = "none"
                /\ game_matrix_.values[r][c] =
                        _score_battles(armies_orders_[1][r], armies_orders_[2][c])

\* C4 witness: fit_game_matrix has just built a matrix of more than one row
\* and column with a cell that is not 0.
C4_Witness ==
    /\ lastOp = "fit_game_matrix"
    /\ err = "none"
    /\ Len(game_matrix_.index) > 1
    /\ Len(game_matrix_.columns) > 1
    /\ \E r \in 1..Len(game_matrix_.values) :
        \E c \in 1..Len(game_matrix_.values[r]) : game_matrix_.values[r][c] > 0

\* C5: whenever the game matrix is present, the allocation sets are the
\* enumeration for the current armies_sizes and n_strongholds and the matrix
\* has one row per allocation of armies_orders_[0], one column per allocation
\* of armies_orders_[1], each cell the score of its two allocations.
C5_MatrixIsCurrent ==
    has_matrix =>
        /\ armies_orders_ = FitOrders(armies_sizes, n_strongholds)
        /\ Len(game_matrix_.values) = Len(armies_orders_[1])
        /\ \A r \in 1..Len(armies_orders_[1]) :
            /\ Len(game_matrix_.values[r]) = Len(armies_orders_[2])
            /\ \A c \in 1..Len(armies_orders_[2]) :
                game_matrix_.values[r][c] =
                    _score_battles(armies_orders_[1][r], armies_orders_[2][c])

\* C6: fit_game_matrix on a game whose fit_army_orders has never run raises
\* RuntimeError and leaves no game matrix; show_submatrixes on a game whose
\* fit_game_matrix has never succeeded raises RuntimeError and prints no
\* sub-matrix; fit_army_orders, fit_game_matrix after fit_army_orders has run,
\* and show_submatrixes after fit_game_matrix has succeeded do not raise
\* RuntimeError.
C6_NotReady ==
    /\ (lastOp = "fit_game_matrix" /\ ~ran_orders) =>
            (err = "RuntimeError" /\ ~has_matrix)
    /\ (lastOp = "show_submatrixes" /\ ~built_matrix) =>
            (err = "RuntimeError" /\ emitted = <<>>)
    /\ lastOp = "fit_army_orders" => err # "RuntimeError"
    /\ (lastOp = "fit_game_matrix" /\ ran_orders) => err # "RuntimeError"
    /\ (lastOp = "show_submatrixes" /\ built_matrix) => err # "RuntimeError"

\* C6 witness: show_submatrixes was called after fit_army_orders but before
\* any fit_game_matrix succeeded, and raised RuntimeError.
C6_Witness ==
    /\ lastOp = "show_submatrixes"
    /\ ran_orders
    /\ ~built_matrix
    /\ err = "RuntimeError"

\* The configuration the specification asks for: two army sizes that are
\* non-negative ints and a positive int n_strongholds.
ValidConfiguration(obj, value) ==
    /\ obj.iterable
    /\ \A i \in 1..Len(obj.items) : obj.items[i].kind = "int" /\ obj.items[i].v >= 0
    /\ value.kind = "int"
    /\ value.v >= 1

\* C7: CommanderGame(obj, value) returns a game exactly when both army sizes
\* are non-negative ints and n_strongholds is a positive int, and raises
\* otherwise.
C7_ConstructorValidates ==
    (lastOp = "__init__" /\ init_args # <<>>) =>
        /\ constructed <=> ValidConfiguration(init_args[1], init_args[2])
        /\ ~constructed => err # "none"

\* The positions of the orders of army_orders with the multiset of order.
Matching(army_orders, order) ==
    Selected([i \in 1..Len(army_orders) |->
                 SameMultiset(army_orders[i].v, order.v)], 1)

\* C8: every sub-matrix show_submatrixes prints for a pair (row_order,
\* col_order) has exactly the rows of armies_orders_[0] with row_order's
\* multiset and the columns of armies_orders_[1] with col_order's multiset, in
\* their order, and each value is the cell of game_matrix_ for that row
\* allocation and column allocation.
C8_SubMatrixSelection ==
    lastOp = "show_submatrixes" =>
        \A p \in 1..Len(emitted) :
            LET shown == emitted[p].game_matrix
                rows == Matching(armies_orders_[1], emitted[p].row_order)
                cols == Matching(armies_orders_[2], emitted[p].col_order)
            IN  /\ shown.index = [k \in 1..Len(rows) |-> Str(armies_orders_[1][rows[k]])]
                /\ shown.columns = [l \in 1..Len(cols) |-> Str(armies_orders_[2][cols[l]])]
                /\ \A k \in 1..Len(rows), l \in 1..Len(cols) :
                    LET r == Position(game_matrix_.index, shown.index[k])
                        c == Position(game_matrix_.columns, shown.columns[l])
                    IN  /\ r > 0
                        /\ c > 0
                        /\ shown.values[k][l] = Num(game_matrix_.values[r][c])

\* The orders of army_orders that are the first with their multiset.
FirstOccurrences(army_orders) ==
    LET first == Selected([i \in 1..Len(army_orders) |->
                    \A j \in 1..(i - 1) :
                        ~SameMultiset(army_orders[j].v, army_orders[i].v)], 1)
    IN  [k \in 1..Len(first) |-> army_orders[first[k]]]

\* C9: show_submatrixes called with no orders_lists on a game with a game
\* matrix derives, for each player, the first order of every multiset of that
\* player's allocation set, in order of first occurrence, and prints exactly
\* one sub-matrix per pair of the product of the two lists, row-major.
C9_DefaultPatterns ==
    (lastOp = "show_submatrixes" /\ defaulted /\ err # "RuntimeError") =>
        /\ Len(orders_lists) = 2
        /\ \A p \in 1..2 : orders_lists[p] = FirstOccurrences(armies_orders_[p])
        /\ Len(emitted) = Len(orders_lists[1]) * Len(orders_lists[2])
        /\ \A r \in 1..Len(orders_lists[1]), c \in 1..Len(orders_lists[2]) :
            LET e == emitted[(r - 1) * Len(orders_lists[2]) + c]
            IN  e.row_order = orders_lists[1][r] /\ e.col_order = orders_lists[2][c]

\* C10: in a game with n_strongholds >= 1 whose game matrix was built from the
\* orders of its configuration armies_sizes = [s1, s2], every cell v satisfies
\* -(max(s1, s2) + n_strongholds) <= v <= max(s1, s2) + n_strongholds.
C10_CellsBounded ==
    (BuiltForConfiguration /\ n_strongholds >= 1) =>
        \A r \in 1..Len(game_matrix_.values) :
            \A c \in 1..Len(game_matrix_.values[r]) :
                Abs(game_matrix_.values[r][c]) <=
                    Max(armies_sizes[1], armies_sizes[2]) + n_strongholds

\* C10 witness: a matrix built for the configuration held now, over two
\* strongholds, with a cell of absolute value 2 or more.
C10_Witness ==
    /\ BuiltForConfiguration
    /\ n_strongholds = 2
    /\ \E r \in 1..Len(game_matrix_.values) :
        \E c \in 1..Len(game_matrix_.values[r]) :
            Abs(game_matrix_.values[r][c]) >= 2
====
